---------------------------- MODULE Spec2Model ----------------------------
(***************************************************************************)
(* Model of the provider gateway (class LLMService, llmService.js) of the  *)
(* LLM comparison tool: provider selection, credentials, prompt fitting,   *)
(* dispatch of one HTTP POST per sendPrompt and usage accounting.          *)
(*                                                                         *)
(* JavaScript runs the gateway on one event loop: the synchronous part of  *)
(* a method is one atomic step, and an async method is cut at its awaits.  *)
(* sendPrompt has one await (the provider call, which itself awaits        *)
(* axios.post), so one invocation is two steps: the part up to the POST    *)
(* and the continuation that runs when the POST settles.                   *)
(*                                                                         *)
(* Money is held in micro-dollars (1e-6 USD): a rate of 0.03 USD per 1000  *)
(* tokens is 30 micro-dollars per token, so (tokens / 1000) * rate is the  *)
(* integer tokens * rate.                                                  *)
(***************************************************************************)
EXTENDS Integers, Sequences, FiniteSets, TLC

\* ------------------------------------------------------------------ bounds
MaxCalls == 2            \* sendPrompt invocations in one behaviour

\* ------------------------------------------------------- JavaScript values
\* A JavaScript number that may be NaN (arithmetic on undefined or on a
\* function object gives NaN, and every comparison with NaN is false).
JSNum(k) == [nan |-> FALSE, n |-> k]
NaN == [nan |-> TRUE, n |-> 0]
JSAdd(a, b) == IF a.nan \/ b.nan THEN NaN ELSE JSNum(a.n + b.n)
JSSub(a, b) == IF a.nan \/ b.nan THEN NaN ELSE JSNum(a.n - b.n)
JSMul(a, b) == IF a.nan \/ b.nan THEN NaN ELSE JSNum(a.n * b.n)

\* Values a property lookup on an object literal can give besides a string
\* or a number: undefined (no such property) and a function inherited from
\* Object.prototype (toString, constructor, valueOf, ...).
Undefined == "<undefined>"
InheritedFunction == "<function>"
\* Representative of the property names every object literal inherits.
ObjectPrototypeKeys == {"toString"}

\* ---------------------------------------------------------------- tables
Providers == {"openai", "gemini", "llama", "deepseek"}

\* USD per 1K tokens (0.03, 0.01, 0.002, 0.005) in micro-dollars per token.
PROVIDER_COSTS ==
    [openai |-> 30, gemini |-> 10, llama |-> 2, deepseek |-> 5]

\* PROVIDER_COSTS[id] as JavaScript evaluates it.
CostEntry(id) ==
    IF id \in Providers THEN JSNum(PROVIDER_COSTS[id])
    ELSE NaN    \* undefined or a function: NaN in a product

\* !PROVIDER_COSTS[id]: every own rate is non-zero, an inherited function is
\* truthy, a missing property is undefined.
CostEntryTruthy(id) == id \in Providers \/ id \in ObjectPrototypeKeys

limits ==
    [openai   |-> [m \in {"gpt-4", "gpt-4-turbo", "gpt-4-1106-preview",
                          "gpt-3.5-turbo", "gpt-3.5-turbo-16k", "default"} |->
                     CASE m = "gpt-4" -> 8192
                       [] m = "gpt-4-turbo" -> 128000
                       [] m = "gpt-4-1106-preview" -> 128000
                       [] m = "gpt-3.5-turbo" -> 16384
                       [] m = "gpt-3.5-turbo-16k" -> 16384
                       [] OTHER -> 4096],
     gemini   |-> [m \in {"gemini-pro", "default"} |-> 32768],
     llama    |-> [m \in {"llama-2-70b-chat", "default"} |-> 4096],
     deepseek |-> [m \in {"deepseek-chat", "default"} |-> 32768]]

\* _getContextLimits(provider, model).  limits[provider] is the provider's
\* table, a function for an inherited property name (truthy, so no fallback
\* to limits.openai, and it has no numeric entries), limits.openai otherwise.
getContextLimits(prov, model) ==
    IF prov \in ObjectPrototypeKeys THEN NaN
    ELSE LET providerLimits ==
                 IF prov \in Providers THEN limits[prov] ELSE limits.openai
         IN  IF model \in DOMAIN providerLimits THEN JSNum(providerLimits[model])
             ELSE IF model \in ObjectPrototypeKeys \/ model = InheritedFunction
                  THEN NaN
                  ELSE JSNum(providerLimits["default"])

\* _getDefaultModel() for the active provider prov.
getDefaultModel(prov) ==
    CASE prov = "openai"   -> "gpt-3.5-turbo"
      [] prov = "gemini"   -> "gemini-pro"
      [] prov = "llama"    -> "llama-2-70b-chat"
      [] prov = "deepseek" -> "deepseek-chat"
      [] prov \in ObjectPrototypeKeys -> InheritedFunction
      [] OTHER -> "gpt-3.5-turbo"

\* ------------------------------------------------------------------ text
\* A text is a sequence of one-character strings.
Whitespace == {" ", "\n"}

TruncationNotice == <<
    "\n", "\n", "[", "N", "o", "t", "e", ":", " ", "D", "o", "c",
    "u", "m", "e", "n", "t", " ", "w", "a", "s", " ", "t", "r",
    "u", "n", "c", "a", "t", "e", "d", " ", "d", "u", "e", " ",
    "t", "o", " ", "l", "e", "n", "g", "t", "h", " ", "c", "o",
    "n", "s", "t", "r", "a", "i", "n", "t", "s", "]" >>

Max(S) == CHOOSE x \in S : \A y \in S : y <= x
Min(S) == CHOOSE x \in S : \A y \in S : x <= y

\* text.substring(0, end): end is clamped to 0..length.
substring(text, end) ==
    SubSeq(text, 1, Max({0, Min({end, Len(text)})}))

\* text.lastIndexOf(pat), 0-based, -1 when pat does not occur.
lastIndexOf(text, pat) ==
    Max({-1} \cup {i \in 0..(Len(text) - Len(pat)) :
                      SubSeq(text, i + 1, i + Len(pat)) = pat})

\* text.trim()
trim(text) ==
    LET keep == {i \in 1..Len(text) : text[i] \notin Whitespace}
    IN  IF keep = {} THEN <<>> ELSE SubSeq(text, Min(keep), Max(keep))

\* _estimateTokens with Math.floor in place of Math.ceil.
estimateTokens_floor(text) == Len(text) \div 4

\* _estimateTokens(text) = Math.ceil(text.length / 4)
estimateTokens(text) == (Len(text) + 3) \div 4

\* Separators of _truncateText in the order the loop visits them; weights
\* 1.0, 0.9, 0.8, 0.6, 0.5 are held in tenths.
boundaries == <<
    [char |-> <<"\n", "\n">>, weight |-> 10],
    [char |-> <<".", " ">>,   weight |-> 9],
    [char |-> <<"\n">>,       weight |-> 8],
    [char |-> <<",", " ">>,   weight |-> 6],
    [char |-> <<" ">>,        weight |-> 5] >>

\* The least power of two above k.
RECURSIVE Pow2Above(_)
Pow2Above(k) == IF k < 1 THEN 1 ELSE 2 * Pow2Above(k \div 2)

\* A test that lets any occurrence of a separator qualify.
PastMinCut_anyIndex(lastIndex, maxChars) == lastIndex >= 0

\* lastIndex > maxChars * 0.7 in binary doubles.  The double 0.7 lies 0.8 *
\* 2^-54 below 0.7, so the product is the exact 0.7 * maxChars rounded,
\* except where it rounds down: there lastIndex = 0.7 * maxChars compares
\* greater.  It rounds down when maxChars * 0.8 * 2^-54 exceeds half the
\* spacing of the doubles just below 0.7 * maxChars, that is when the least
\* power of two above 0.7 * maxChars is below 0.8 * maxChars (maxChars = 90
\* with lastIndex = 63, 350 with 245, 360 with 252, ...).
PastMinCut(lastIndex, maxChars) ==
    \/ 10 * lastIndex > 7 * maxChars
    \/ /\ 10 * lastIndex = 7 * maxChars
       /\ lastIndex > 0
       /\ 10 * Pow2Above(lastIndex) < 8 * maxChars

\* A score that leaves the weight out.
Score_ignoresWeight(weight, lastIndex, maxChars) ==
    IF maxChars > 0 THEN lastIndex ELSE 0 - lastIndex

\* boundary.weight * (lastIndex / maxChars), in units of 1 / (10 * |maxChars|).
\* maxChars is never 0 here: with maxChars = 0 the window is empty, lastIndex
\* is -1 and PastMinCut is false.
Score(weight, lastIndex, maxChars) ==
    IF maxChars > 0 THEN weight * lastIndex ELSE 0 - (weight * lastIndex)

\* The for loop of _truncateText after its first k boundaries: the pairs
\* (bestCutPoint, bestScore) it can hold.  score > bestScore compares two
\* doubles, each a rounded product of a rounded weight and a rounded
\* quotient: scores that differ exactly differ by far more than the rounding
\* error and compare as the exact ones do, while for two scores that are
\* exactly equal (0.6 * (10/14) and 0.5 * (12/14)) the roundings decide, and
\* the later boundary either replaces the earlier one or does not.
RECURSIVE BestCut(_, _, _)
BestCut(truncated, maxChars, k) ==
    IF k = 0 THEN { [bestCutPoint |-> maxChars, bestScore |-> 0] }
    ELSE LET b == boundaries[k]
             lastIndex == lastIndexOf(truncated, b.char)
             score == Score(b.weight, lastIndex, maxChars)
             taken == [bestCutPoint |-> lastIndex + Len(b.char),
                       bestScore |-> score]
         IN  UNION { IF ~PastMinCut(lastIndex, maxChars) THEN {prev}
                     ELSE IF score > prev.bestScore THEN {taken}
                     ELSE IF score = prev.bestScore THEN {prev, taken}
                     ELSE {prev}
                     : prev \in BestCut(truncated, maxChars, k - 1) }

\* _truncateText without its first early return.
truncateTextInt_noEstimateCheck(text, maxTokens) ==
    LET maxChars == (7 * maxTokens) \div 2
    IN  IF Len(text) <= maxChars
        THEN { [text |-> text, wasTruncated |-> FALSE] }
        ELSE LET truncated == substring(text, maxChars)
             IN  { [text |-> trim(substring(text, best.bestCutPoint))
                                 \o TruncationNotice,
                    wasTruncated |-> TRUE]
                   : best \in BestCut(truncated, maxChars, Len(boundaries)) }

\* _truncateText that cuts one character short of the budget when no
\* boundary is taken.
truncateTextInt_cutsShort(text, maxTokens) ==
    IF estimateTokens(text) <= maxTokens
    THEN { [text |-> text, wasTruncated |-> FALSE] }
    ELSE LET maxChars == (7 * maxTokens) \div 2
             truncated == substring(text, maxChars)
         IN  IF Len(text) <= maxChars
             THEN { [text |-> text, wasTruncated |-> FALSE] }
             ELSE { [text |-> trim(substring(text,
                                             IF best.bestScore = 0
                                             THEN best.bestCutPoint - 1
                                             ELSE best.bestCutPoint))
                                  \o TruncationNotice,
                     wasTruncated |-> TRUE]
                    : best \in BestCut(truncated, maxChars, Len(boundaries)) }

\* _truncateText with a character budget of 4.5 characters per token.
truncateTextInt_wideBudget(text, maxTokens) ==
    IF estimateTokens(text) <= maxTokens
    THEN { [text |-> text, wasTruncated |-> FALSE] }
    ELSE LET maxChars == (9 * maxTokens) \div 2
         IN  IF Len(text) <= maxChars
             THEN { [text |-> text, wasTruncated |-> FALSE] }
             ELSE LET truncated == substring(text, maxChars)
                  IN  { [text |-> trim(substring(text, best.bestCutPoint))
                                      \o TruncationNotice,
                         wasTruncated |-> TRUE]
                        : best \in BestCut(truncated, maxChars, Len(boundaries)) }

\* _truncateText(text, maxTokens) for an integer maxTokens: the values it
\* can return (one, unless two boundaries score exactly the same).
truncateTextInt(text, maxTokens) ==
    IF estimateTokens(text) <= maxTokens
    THEN { [text |-> text, wasTruncated |-> FALSE] }
    ELSE LET maxChars == (7 * maxTokens) \div 2    \* Math.floor(maxTokens * 3.5)
         IN  IF Len(text) <= maxChars
             THEN { [text |-> text, wasTruncated |-> FALSE] }
             ELSE LET truncated == substring(text, maxChars)
                  IN  { [text |-> trim(substring(text, best.bestCutPoint))
                                      \o TruncationNotice,
                         wasTruncated |-> TRUE]
                        : best \in BestCut(truncated, maxChars, Len(boundaries)) }

\* _truncateText(text, maxTokens).  With maxTokens = NaN both early returns
\* compare false, substring(0, NaN) is empty and no boundary qualifies.
truncateText(text, maxTokens) ==
    IF maxTokens.nan
    THEN { [text |-> TruncationNotice, wasTruncated |-> TRUE] }
    ELSE truncateTextInt(text, maxTokens.n)

\* ----------------------------------------------------------------- inputs
\* Ids callers pass: the four providers, a name no object has ("mistral")
\* and a name every object literal inherits.
Ids == Providers \cup ObjectPrototypeKeys \cup {"mistral"}
\* Ids the behaviours with calls in flight pass to setProvider.  deepseek is
\* left out (it is never the active provider there): its case of the switch
\* in sendPrompt and its provider call repeat llama's.
SwitchIds == Ids \ {"deepseek"}
\* Ids whose credential callers change after construction.
CredentialIds == {"gemini", "mistral"}

\* import.meta.env.VITE_*_API_KEY || '' at construction: the deployments
\* considered (no key at all, a key for every provider).
EnvKeySets == {{}, Providers}
ApiKey == "sk-test"
KeyInputs == {"", ApiKey}

\* options.max_tokens / options.model when the caller leaves them out.
Absent == 0 - 1
NoModel == Undefined

Prompts == { <<"H", "i", ".", " ", "y", "o", "u", "?">> }
\* sendPrompt(prompt) with options left at its default {}.
OptionInputs ==
    { [model |-> NoModel, max_tokens |-> Absent] }

\* What a 2xx response gives as res.data: a JSON object ("object") with its
\* usage.total_tokens (NoUsage when it reports none) and the length of its
\* completion text, or the empty string of a response without a body
\* ("empty").
NoUsage == 0 - 1
Responses ==
    { [body |-> "object", usage |-> NoUsage, completionLen |-> 0],
      [body |-> "object", usage |-> NoUsage, completionLen |-> 12],
      [body |-> "object", usage |-> 15,      completionLen |-> 3990],
      [body |-> "empty",  usage |-> NoUsage, completionLen |-> 0] }
\* The response the concurrent behaviours are explored with.
UsageResponses == { r \in Responses : r.usage # NoUsage }

\* How a POST fails: no response, a non-2xx status, a body that is not the
\* JSON object the call expects (res.data is null).
Failures == {"network", "status", "malformed"}

Calls == 1..MaxCalls

\* ------------------------------------------------------------------ state
VARIABLES
    provider,     \* this.provider
    apiKeys,      \* this.apiKeys, with what a lookup of any id gives
    tokenUsage,   \* this.tokenUsage
    totalCost,    \* this.totalCost, micro-dollars or NaN
    calls,        \* the sendPrompt invocations: position (pc), the
                  \* arguments and locals alive across the await, the POSTs
                  \* issued (posts), what was thrown (error), the response
                  \* returned and its metadata, and (history, beforeReset)
                  \* whether resetUsage ran while the call awaited its POST
    recordedTokens, \* history: sum of the tokensUsed of the calls that
                  \* recorded usage since the last resetUsage
    onlyProvider, \* history: the provider p when every call that recorded
                  \* usage since the last resetUsage was dispatched to p and
                  \* recorded while p was active; "" when there is no such
                  \* call, "several" otherwise
    concurrent,   \* history: TRUE once two calls have awaited their POSTs
                  \* at the same time
    result,       \* outcome of the last synchronous operation
    text,         \* the text a helper of the gateway is applied to
    maxTokens,    \* the token budget it is applied with
    ret,          \* what the last application of a helper returned
    currentProvider, \* ResponseEvaluator's state currentProvider
    stored        \* localStorage's item "llm_prompt_logs"

vars == <<provider, apiKeys, tokenUsage, totalCost, calls, recordedTokens,
          onlyProvider, concurrent, result>>

\* What the gateway's collaborators hold: the component that switches the
\* provider and the prompt log in the browser's storage.
uiVars == <<currentProvider, stored>>

\* The helpers (_truncateText, _estimateTokens, _getContextLimits) read and
\* write no field of the gateway; their arguments and return values are
\* held apart from it, as is the state of the collaborators.
helperVars == <<text, maxTokens, ret, uiVars>>

allVars == <<vars, helperVars>>

Truthy(v) == v # "" /\ v # Undefined

\* response._metadata when sendPrompt attaches none.
NoMetadata == [wasTruncated |-> FALSE, originalTokens |-> 0, processedTokens |-> 0]

\* sendPrompt's options when the caller passes none (options = {}).
NoOptions == [model |-> NoModel, max_tokens |-> Absent]

\* sendPrompt's response before the provider call has returned.
NoResponse == [body |-> "none", usage |-> NoUsage, completionLen |-> 0]

IdleCall ==
    [pc |-> "idle", target |-> "", prompt |-> <<>>, options |-> NoOptions,
     request |-> <<>>, maxPromptTokens |-> JSNum(0), wasTruncated |-> FALSE,
     posts |-> 0, response |-> NoResponse, metadata |-> NoMetadata,
     error |-> "", beforeReset |-> FALSE]

\* No helper has been applied.
NoReturn == [op |-> "none"]

\* What the last setProvider or setApiKey did: error is what it threw, ""
\* when it returned.
Outcome(op, error) == [op |-> op, error |-> error]

\* constructor
Constructed ==
    /\ provider = "openai"
    /\ tokenUsage = 0
    /\ totalCost = JSNum(0)
    /\ \E env \in EnvKeySets :
         apiKeys = [id \in Ids |->
                      IF id \in Providers
                      THEN (IF id \in env THEN ApiKey ELSE "")
                      ELSE IF id \in ObjectPrototypeKeys THEN InheritedFunction
                      ELSE Undefined]
    /\ calls = [c \in Calls |-> IdleCall]
    /\ recordedTokens = 0
    /\ onlyProvider = ""
    /\ concurrent = FALSE
    /\ result = Outcome("constructor", "")

\* localStorage.getItem gives null: nothing was stored under the key.
NoItem == [kind |-> "null"]

Init ==
    /\ Constructed
    /\ text = <<>>
    /\ maxTokens = JSNum(0)
    /\ ret = NoReturn
    /\ currentProvider = "openai"
    /\ stored = NoItem

\* ---------------------------------------------------------- setProvider
\* What setProvider(id) throws ("" when it returns) and the active provider
\* it leaves.
\* setProvider with the assignment moved above the key check.
setProvider_assignsBeforeKeyCheck(id) ==
    IF ~CostEntryTruthy(id)
    THEN [error |-> "UnsupportedProvider", provider |-> provider]
    ELSE IF ~Truthy(apiKeys[id])
    THEN [error |-> "MissingCredential", provider |-> id]
    ELSE [error |-> "", provider |-> id]

setProvider(id) ==
    IF ~CostEntryTruthy(id)
    THEN [error |-> "UnsupportedProvider", provider |-> provider]
    ELSE IF ~Truthy(apiKeys[id])
    THEN [error |-> "MissingCredential", provider |-> provider]
    ELSE [error |-> "", provider |-> id]

\* setProvider that also reprices the recorded tokens at the new provider's
\* rate.
SetProvider_reprices(id) ==
    /\ provider' = setProvider(id).provider
    /\ result' = Outcome("setProvider", setProvider(id).error)
    /\ totalCost' = IF setProvider(id).error = ""
                    THEN JSMul(JSNum(tokenUsage), CostEntry(id))
                    ELSE totalCost
    /\ UNCHANGED <<apiKeys, tokenUsage, calls, recordedTokens,
                   onlyProvider, concurrent>>
    /\ UNCHANGED helperVars

SetProvider(id) ==
    /\ provider' = setProvider(id).provider
    /\ result' = Outcome("setProvider", setProvider(id).error)
    /\ UNCHANGED <<apiKeys, tokenUsage, totalCost, calls, recordedTokens,
                   onlyProvider, concurrent>>
    /\ UNCHANGED helperVars

\* ------------------------------------------------------------ setApiKey
setApiKey(id, apiKey) ==
    IF ~CostEntryTruthy(id)
    THEN [error |-> "UnsupportedProvider", apiKeys |-> apiKeys]
    ELSE [error |-> "", apiKeys |-> [apiKeys EXCEPT ![id] = apiKey]]

SetApiKey(id, apiKey) ==
    /\ apiKeys' = setApiKey(id, apiKey).apiKeys
    /\ result' = Outcome("setApiKey", setApiKey(id, apiKey).error)
    /\ UNCHANGED <<provider, tokenUsage, totalCost, calls, recordedTokens,
                   onlyProvider, concurrent>>
    /\ UNCHANGED helperVars

\* ----------------------------------------------------------- resetUsage
\* resetUsage that forgets to zero the cost.
resetUsage_keepsCost ==
    [tokenUsage |-> 0, totalCost |-> totalCost]

resetUsage ==
    [tokenUsage |-> 0, totalCost |-> JSNum(0)]

\* resetUsage(); the calls awaiting their POST at this moment are marked
\* (beforeReset) as dispatched before it.
ResetUsage ==
    /\ tokenUsage' = resetUsage.tokenUsage
    /\ totalCost' = resetUsage.totalCost
    /\ recordedTokens' = 0
    /\ onlyProvider' = ""
    /\ calls' = [c \in Calls |->
                   [calls[c] EXCEPT !.beforeReset =
                                       @ \/ calls[c].pc = "awaiting"]]
    /\ UNCHANGED <<provider, apiKeys, concurrent, result>>
    /\ UNCHANGED helperVars

\* ------------------------------------------------------------- getUsage
RECURSIVE Digits(_)
Digits(k) ==
    LET d == <<"0", "1", "2", "3", "4", "5", "6", "7", "8", "9">>
    IN  IF k < 10 THEN <<d[k + 1]>> ELSE Digits(k \div 10) \o <<d[(k % 10) + 1]>>

\* The decimal string of q ten-thousandths: integer part, point, 4 digits.
Decimal4(q) ==
    LET f == q % 10000
    IN  Digits(q \div 10000) \o <<".">> \o
        (IF f < 10 THEN <<"0", "0", "0">>
         ELSE IF f < 100 THEN <<"0", "0">>
         ELSE IF f < 1000 THEN <<"0">> ELSE <<>>) \o Digits(f)

\* this.totalCost.toFixed(4): the strings it can give for a total whose exact
\* amount is cost micro-dollars.  toFixed rounds the binary double to the
\* nearest ten-thousandth; the double differs from the exact amount by a
\* rounding error far below one micro-dollar, so the nearest ten-thousandth
\* is that of the exact amount except when the amount is exactly halfway,
\* where the error decides and either neighbour can come out.
toFixed4(cost) ==
    IF cost.nan THEN { <<"N", "a", "N">> }
    ELSE LET q == cost.n \div 100
             r == cost.n % 100
         IN  IF r < 50 THEN { Decimal4(q) }
             ELSE IF r > 50 THEN { Decimal4(q + 1) }
             ELSE { Decimal4(q), Decimal4(q + 1) }

\* The snapshots getUsage() can return in the current state; it reads the
\* fields and changes nothing.
getUsage ==
    { [provider |-> provider, tokens |-> tokenUsage, cost |-> c] :
        c \in toFixed4(totalCost) }

\* ----------------------------------------------------------- sendPrompt
\* options.max_tokens || 1000
responseTokensOf(options) ==
    IF options.max_tokens = Absent \/ options.max_tokens = 0
    THEN 1000 ELSE options.max_tokens

\* options.model || this._getDefaultModel()
modelOf(options) ==
    IF options.model = NoModel \/ options.model = ""
    THEN getDefaultModel(provider) ELSE options.model

\* contextLimit - responseTokens - systemTokens
maxPromptTokensOf(options) ==
    JSSub(JSSub(getContextLimits(provider, modelOf(options)),
                JSNum(responseTokensOf(options))),
          JSNum(100))

\* sendPrompt up to its await: the key check, the budget, the fitting and
\* the switch on this.provider, whose provider call builds the request and
\* issues axios.post.  error is what is thrown before any POST ("" when the
\* POST went out), target the case of the switch that was taken.
\* sendPrompt without its key check.
\* The fitting can come out in more than one way (see BestCut), so this is
\* the set of the ways the part can go.
sendPromptDispatch_noKeyCheck(prompt, options) ==
    { IF provider \in Providers
      THEN [error |-> "", target |-> provider, request |-> fit.text,
            maxPromptTokens |-> maxPromptTokensOf(options),
            wasTruncated |-> fit.wasTruncated, posts |-> 1]
      ELSE [error |-> "ProviderCall", target |-> "", request |-> <<>>,
            maxPromptTokens |-> JSNum(0),
            wasTruncated |-> fit.wasTruncated, posts |-> 0]
      : fit \in truncateText(prompt, maxPromptTokensOf(options)) }

\* sendPrompt that sends the prompt as it came instead of the fitted one.
sendPromptDispatch_sendsOriginal(prompt, options) ==
    IF ~Truthy(apiKeys[provider])
    THEN { [error |-> "MissingCredential", target |-> "", request |-> <<>>,
            maxPromptTokens |-> JSNum(0),
            wasTruncated |-> FALSE, posts |-> 0] }
    ELSE { IF provider \in Providers
           THEN [error |-> "", target |-> provider, request |-> prompt,
                 maxPromptTokens |-> maxPromptTokensOf(options),
                 wasTruncated |-> fit.wasTruncated, posts |-> 1]
           ELSE [error |-> "ProviderCall", target |-> "", request |-> <<>>,
                 maxPromptTokens |-> JSNum(0),
                 wasTruncated |-> fit.wasTruncated, posts |-> 0]
           : fit \in truncateText(prompt, maxPromptTokensOf(options)) }

\* sendPrompt that rejects a budget that is not positive before any I/O.
sendPromptDispatch_rejectsNonPositive(prompt, options) ==
    IF ~Truthy(apiKeys[provider])
    THEN { [error |-> "MissingCredential", target |-> "", request |-> <<>>,
            maxPromptTokens |-> JSNum(0),
            wasTruncated |-> FALSE, posts |-> 0] }
    ELSE IF ~maxPromptTokensOf(options).nan /\ maxPromptTokensOf(options).n <= 0
    THEN { [error |-> "Configuration", target |-> "", request |-> <<>>,
            maxPromptTokens |-> JSNum(0),
            wasTruncated |-> FALSE, posts |-> 0] }
    ELSE { IF provider \in Providers
           THEN [error |-> "", target |-> provider, request |-> fit.text,
                 maxPromptTokens |-> maxPromptTokensOf(options),
                 wasTruncated |-> fit.wasTruncated, posts |-> 1]
           ELSE [error |-> "ProviderCall", target |-> "", request |-> <<>>,
                 maxPromptTokens |-> JSNum(0),
                 wasTruncated |-> fit.wasTruncated, posts |-> 0]
           : fit \in truncateText(prompt, maxPromptTokensOf(options)) }

sendPromptDispatch(prompt, options) ==
    IF ~Truthy(apiKeys[provider])
    THEN { [error |-> "MissingCredential", target |-> "", request |-> <<>>,
            maxPromptTokens |-> JSNum(0),
            wasTruncated |-> FALSE, posts |-> 0] }
    ELSE { IF provider \in Providers
           THEN [error |-> "", target |-> provider, request |-> fit.text,
                 maxPromptTokens |-> maxPromptTokensOf(options),
                 wasTruncated |-> fit.wasTruncated, posts |-> 1]
           ELSE \* default: throw, caught and wrapped by the catch block
                [error |-> "ProviderCall", target |-> "", request |-> <<>>,
                 maxPromptTokens |-> JSNum(0),
                 wasTruncated |-> fit.wasTruncated, posts |-> 0]
           : fit \in truncateText(prompt, maxPromptTokensOf(options)) }

SendPrompt(c, prompt, options) ==
    /\ calls[c].pc = "idle"
    /\ \A b \in Calls : b < c => calls[b].pc # "idle"
    /\ \E d \in sendPromptDispatch(prompt, options) :
           /\ calls' = [calls EXCEPT ![c] =
                       [@ EXCEPT !.pc = IF d.error = "" THEN "awaiting" ELSE "thrown",
                                 !.target = d.target,
                                 !.prompt = IF d.error = "" THEN prompt ELSE <<>>,
                                 !.options = IF d.error = "" THEN options
                                             ELSE NoOptions,
                                 !.request = d.request,
                                 !.maxPromptTokens = d.maxPromptTokens,
                                 !.wasTruncated = d.wasTruncated,
                                 !.posts = d.posts,
                                 !.error = d.error]]
           /\ concurrent' =
                 \/ concurrent
                 \/ d.error = "" /\ \E b \in Calls : calls[b].pc = "awaiting"
    /\ UNCHANGED <<provider, apiKeys, tokenUsage, totalCost, recordedTokens,
                   onlyProvider, result>>
    /\ UNCHANGED helperVars

\* tokensUsed as the case of the switch that was taken computes it from the
\* provider call's return value.
tokensUsedOf(target, request, resp) ==
    CASE target = "openai" ->
           \* response.usage?.total_tokens || 0
           IF resp.usage = NoUsage THEN 0 ELSE resp.usage
      [] target = "gemini" ->
           \* _estimateTokens(prompt + completion text)
           (Len(request) + resp.completionLen + 3) \div 4
      [] OTHER ->
           \* res.data.usage?.total_tokens || _estimateTokens(prompt)
           IF resp.usage = NoUsage \/ resp.usage = 0
           THEN estimateTokens(request) ELSE resp.usage

\* Whether the value the provider call returned is truthy: _callOpenAI
\* returns res.data itself, the other three a fresh object spread from it.
responseTruthy(target, resp) == target # "openai" \/ resp.body = "object"

\* _trackUsage with the cost assigned (=) instead of accumulated (+=).
trackUsage_costAssigned(tokens) ==
    [tokenUsage |-> tokenUsage + tokens,
     totalCost  |-> JSMul(JSNum(tokens), CostEntry(provider))]

\* _trackUsage with the token count assigned (=) instead of accumulated (+=).
trackUsage_tokensAssigned(tokens) ==
    [tokenUsage |-> tokens,
     totalCost  |-> JSAdd(totalCost, JSMul(JSNum(tokens), CostEntry(provider)))]

\* _trackUsage(tokens): the accumulator it leaves.
trackUsage(tokens) ==
    [tokenUsage |-> tokenUsage + tokens,
     totalCost  |-> JSAdd(totalCost, JSMul(JSNum(tokens), CostEntry(provider)))]

\* A continuation that records no usage for a call dispatched before a
\* resetUsage.
HttpSuccess_skipsStale(c, resp) ==
    /\ calls[c].pc = "awaiting"
    /\ LET call == calls[c]
           tokens == tokensUsedOf(call.target, call.request, resp)
           acc == IF call.beforeReset
                  THEN [tokenUsage |-> tokenUsage, totalCost |-> totalCost]
                  ELSE trackUsage(tokens)
       IN  /\ tokenUsage' = acc.tokenUsage
           /\ totalCost' = acc.totalCost
           /\ recordedTokens' = recordedTokens + tokens
           /\ onlyProvider' = IF call.target = provider
                                  /\ onlyProvider \in {"", provider}
                               THEN provider ELSE "several"
           /\ calls' = [calls EXCEPT ![c] =
                          [@ EXCEPT !.pc = "returned",
                                    !.target = "", !.prompt = <<>>,
                                    !.options = NoOptions,
                                    !.request = <<>>,
                                    !.response = resp,
                                    !.maxPromptTokens = JSNum(0),
                                    !.metadata =
                                        IF call.wasTruncated
                                           /\ responseTruthy(call.target, resp)
                                        THEN [wasTruncated |-> TRUE,
                                              originalTokens |-> estimateTokens(call.prompt),
                                              processedTokens |-> estimateTokens(call.request)]
                                        ELSE NoMetadata]]
    /\ UNCHANGED <<provider, apiKeys, concurrent, result>>
    /\ UNCHANGED helperVars

\* A continuation that runs only once no call dispatched earlier is still
\* awaiting its POST.
HttpSuccess_waitsForEarlier(c, resp) ==
    /\ calls[c].pc = "awaiting"
    /\ \A b \in Calls : b < c => calls[b].pc # "awaiting"
    /\ LET call == calls[c]
           tokens == tokensUsedOf(call.target, call.request, resp)
           acc == trackUsage(tokens)
       IN  /\ tokenUsage' = acc.tokenUsage
           /\ totalCost' = acc.totalCost
           /\ recordedTokens' = recordedTokens + tokens
           /\ onlyProvider' = IF call.target = provider
                                  /\ onlyProvider \in {"", provider}
                               THEN provider ELSE "several"
           /\ calls' = [calls EXCEPT ![c] =
                          [@ EXCEPT !.pc = "returned",
                                    !.target = "", !.prompt = <<>>,
                                    !.options = NoOptions,
                                    !.request = <<>>,
                                    !.response = resp,
                                    !.maxPromptTokens = JSNum(0),
                                    !.metadata =
                                        IF call.wasTruncated
                                           /\ responseTruthy(call.target, resp)
                                        THEN [wasTruncated |-> TRUE,
                                              originalTokens |-> estimateTokens(call.prompt),
                                              processedTokens |-> estimateTokens(call.request)]
                                        ELSE NoMetadata]]
    /\ UNCHANGED <<provider, apiKeys, concurrent, result>>
    /\ UNCHANGED helperVars

\* The POST of call c settles with a 2xx response: the provider call
\* returns, sendPrompt resumes, records usage, attaches metadata, returns.
HttpSuccess(c, resp) ==
    /\ calls[c].pc = "awaiting"
    /\ LET call == calls[c]
           tokens == tokensUsedOf(call.target, call.request, resp)
           acc == trackUsage(tokens)
       IN  /\ tokenUsage' = acc.tokenUsage
           /\ totalCost' = acc.totalCost
           /\ recordedTokens' = recordedTokens + tokens
           /\ onlyProvider' = IF call.target = provider
                                  /\ onlyProvider \in {"", provider}
                               THEN provider ELSE "several"
           /\ calls' = [calls EXCEPT ![c] =
                          [@ EXCEPT !.pc = "returned",
                                    !.target = "", !.prompt = <<>>,
                                    !.options = NoOptions,
                                    !.request = <<>>,
                                    !.response = resp,
                                    !.maxPromptTokens = JSNum(0),
                                    !.metadata =
                                        IF call.wasTruncated
                                           /\ responseTruthy(call.target, resp)
                                        THEN [wasTruncated |-> TRUE,
                                              originalTokens |-> estimateTokens(call.prompt),
                                              processedTokens |-> estimateTokens(call.request)]
                                        ELSE NoMetadata]]
    /\ UNCHANGED <<provider, apiKeys, concurrent, result>>
    /\ UNCHANGED helperVars

\* A catch block that issues the POST once more instead of rethrowing.
HttpFailure_retries(c, failure) ==
    /\ calls[c].pc = "awaiting"
    /\ calls[c].posts < 2
    /\ calls' = [calls EXCEPT ![c] = [@ EXCEPT !.posts = @ + 1]]
    /\ UNCHANGED <<provider, apiKeys, tokenUsage, totalCost, recordedTokens,
                   onlyProvider, concurrent, result>>
    /\ UNCHANGED helperVars

\* The POST of call c fails: the provider call throws, sendPrompt's catch
\* block wraps the error and rethrows.  Nothing is retried.
HttpFailure(c, failure) ==
    /\ calls[c].pc = "awaiting"
    /\ calls' = [calls EXCEPT ![c] = [@ EXCEPT !.pc = "thrown",
                                               !.target = "", !.prompt = <<>>,
                                               !.options = NoOptions,
                                               !.request = <<>>,
                                               !.maxPromptTokens = JSNum(0),
                                               !.error = "ProviderCall"]]
    /\ UNCHANGED <<provider, apiKeys, tokenUsage, totalCost, recordedTokens,
                   onlyProvider, concurrent, result>>
    /\ UNCHANGED helperVars

\* ------------------------------------------------------------------ next
Next ==
    \/ \E id \in SwitchIds : SetProvider(id)
    \/ \E id \in CredentialIds, apiKey \in KeyInputs : SetApiKey(id, apiKey)
    \/ ResetUsage
    \/ \E c \in Calls, prompt \in Prompts, options \in OptionInputs :
           SendPrompt(c, prompt, options)
    \/ \E c \in Calls, resp \in UsageResponses : HttpSuccess(c, resp)
    \/ \E c \in Calls, failure \in Failures : HttpFailure(c, failure)

Spec == Init /\ [][Next]_allVars

\* The POST of call c settles, one way or the other, and the continuation of
\* its sendPrompt runs.
Settle(c) ==
    \/ \E resp \in UsageResponses : HttpSuccess(c, resp)
    \/ \E failure \in Failures : HttpFailure(c, failure)

\* The gateway when the POST of every call but the first eventually settles
\* (the event loop runs the continuation of a settled promise); the POST of
\* the first call may hang for ever, no timeout is set on axios.post.
LiveSpec ==
    /\ Init
    /\ [][Next]_allVars
    /\ \A c \in Calls \ {1} : WF_allVars(Settle(c))

\* ------------------------------------------- the helpers, applied directly
MaxLen == 14             \* characters in a text
MaxBudget == 3           \* tokens in a budget

\* n characters that belong to no separator.
Filler(n) == [i \in 1..n |-> "a"]

Separators == { boundaries[k].char : k \in DOMAIN boundaries } \cup { <<>> }

\* Texts of up to MaxLen characters with up to two separators in them,
\* anywhere.
Texts ==
    { t \in { Filler(i) \o s1 \o Filler(j) \o s2 \o Filler(k) :
                 i \in 0..MaxLen, j \in 0..MaxLen, k \in 0..MaxLen,
                 s1 \in Separators, s2 \in Separators } :
        Len(t) <= MaxLen }

\* The budget whose window the texts of WindowTexts are cut to.
WindowBudget == 4

\* Texts of 4 * WindowBudget + 2 characters (two more than the budget's
\* estimate admits) with up to two separators in or next to the last third
\* of the budget's window of floor(3.5 * WindowBudget) characters.
WindowTexts ==
    LET maxChars == (7 * WindowBudget) \div 2
        len == 4 * WindowBudget + 2
        heads == { Filler(i) \o s1 \o Filler(j) \o s2 :
                     i \in (((7 * maxChars) \div 10) - 1)..(maxChars - 1),
                     j \in 0..3,
                     s1 \in Separators, s2 \in Separators }
    IN  { h \o Filler(len - Len(h)) : h \in { g \in heads : Len(g) <= len } }

\* Budgets sendPrompt can pass: contextLimit - responseTokens - 100 is any
\* integer below the limit, negative when the response tokens asked for
\* exceed it, and NaN when the limit is not a number.
Budgets == { JSNum(k) : k \in (0 - 1)..MaxBudget } \cup { NaN }

\* Three longer inputs: a paragraph break at 40% and a sentence end at 90%
\* of a budget of 70 characters; a paragraph break at 18 and a sentence end
\* at 20 of a budget of 24 characters, which score the same (1.0 * 18/24 and
\* 0.9 * 20/24); a word break at exactly 0.7 of a budget of 350 characters.
LongInputs ==
    { [text |-> Filler(28) \o <<"\n", "\n">> \o Filler(33) \o <<".", " ">>
                  \o Filler(16),
       maxTokens |-> JSNum(20)],
      [text |-> Filler(18) \o <<"\n", "\n">> \o <<".", " ">> \o Filler(8),
       maxTokens |-> JSNum(7)],
      [text |-> Filler(245) \o <<" ">> \o Filler(160),
       maxTokens |-> JSNum(100)] }

FitInit ==
    /\ Constructed
    /\ apiKeys["openai"] = ApiKey
    /\ \/ text \in Texts /\ maxTokens \in Budgets
       \/ text \in WindowTexts /\ maxTokens = JSNum(WindowBudget)
       \/ \E x \in LongInputs : text = x.text /\ maxTokens = x.maxTokens
    /\ ret = NoReturn
    /\ currentProvider = "openai"
    /\ stored = NoItem

\* _truncateText(text, maxTokens)
TruncateText ==
    /\ \E r \in truncateText(text, maxTokens) :
           ret' = [op |-> "_truncateText", value |-> r]
    /\ UNCHANGED <<text, maxTokens>>
    /\ UNCHANGED uiVars
    /\ UNCHANGED vars

\* _truncateText(r.text, maxTokens) for the r the last _truncateText(text,
\* maxTokens) returned.
TruncateTextAgain ==
    /\ ret.op = "_truncateText"
    /\ \E r \in truncateText(ret.value.text, maxTokens) :
           ret' = [op |-> "_truncateText twice", first |-> ret.value,
                   value |-> r]
    /\ UNCHANGED <<text, maxTokens>>
    /\ UNCHANGED uiVars
    /\ UNCHANGED vars

\* _estimateTokens(text)
EstimateTokens ==
    /\ ret' = [op |-> "_estimateTokens", value |-> estimateTokens(text)]
    /\ UNCHANGED <<text, maxTokens>>
    /\ UNCHANGED uiVars
    /\ UNCHANGED vars

FitNext ==
    \/ TruncateText
    \/ TruncateTextAgain
    \/ EstimateTokens

FitSpec == FitInit /\ [][FitNext]_allVars

\* Model names callers pass: every name of the tables, a name in none of
\* them and a name every object inherits.
ModelNames ==
    UNION { DOMAIN limits[p] : p \in Providers }
        \cup { "no-such-model" } \cup ObjectPrototypeKeys

\* _getContextLimits(prov, model)
GetContextLimits(prov, model) ==
    /\ ret' = [op |-> "_getContextLimits", provider |-> prov, model |-> model,
               value |-> getContextLimits(prov, model)]
    /\ UNCHANGED <<text, maxTokens>>
    /\ UNCHANGED uiVars
    /\ UNCHANGED vars

LimitNext ==
    \/ \E id \in Ids : SetProvider(id)
    \/ \E id \in CredentialIds, apiKey \in KeyInputs : SetApiKey(id, apiKey)
    \/ \E prov \in Ids, model \in ModelNames : GetContextLimits(prov, model)

LimitSpec == Init /\ [][LimitNext]_allVars

\* ---------------------------------------------------------------- claims

\* C1: setProvider(id) for a known provider whose stored key is empty throws
\* the missing-credential error and leaves the active provider as it was,
\* whatever state the gateway is in.
C1_EmptyKeyRejected ==
    [][\A id \in Providers :
          (apiKeys[id] = "" /\ SetProvider(id))
             => (result'.error = "MissingCredential" /\ provider' = provider)]_vars

\* A setProvider has thrown the missing-credential error for a provider other
\* than the active one.
C1_Witness ==
    /\ result = Outcome("setProvider", "MissingCredential")
    /\ \E id \in Providers : apiKeys[id] = "" /\ id # provider

\* C2: setProvider(id) for an id that is not one of the four providers throws
\* the unsupported-provider error and changes neither the active provider,
\* the credentials nor the usage accumulator.
C2_UnknownIdRejected ==
    [][\A id \in Ids \ Providers :
          SetProvider(id)
             => /\ result'.error = "UnsupportedProvider"
                /\ UNCHANGED <<provider, apiKeys, tokenUsage, totalCost>>]_vars

\* C3: sendPrompt while the key stored for the active provider is empty
\* throws the missing-credential error before any I/O: no POST is issued by
\* this or any other call, and accumulator, active provider and credentials
\* stay as they were.
C3_NoKeyNoRequest ==
    [][\A c \in Calls, prompt \in Prompts, options \in OptionInputs :
          (apiKeys[provider] = "" /\ SendPrompt(c, prompt, options))
             => /\ calls'[c].pc = "thrown"
                /\ calls'[c].error = "MissingCredential"
                /\ \A b \in Calls : calls'[b].posts = calls[b].posts
                /\ UNCHANGED <<tokenUsage, totalCost, provider, apiKeys>>]_vars

\* A sendPrompt has thrown the missing-credential error without a POST.
C3_Witness ==
    \E c \in Calls :
        /\ calls[c].pc = "thrown"
        /\ calls[c].error = "MissingCredential"
        /\ calls[c].posts = 0
        /\ apiKeys[provider] = ""

\* cost is the 4-decimal rendering of a ten-thousandth nearest to exact
\* micro-dollars (either neighbour when exact lies halfway between two).
NearestDecimal4(cost, exact) ==
    \E q \in {exact \div 100, (exact \div 100) + 1} :
        /\ cost = Decimal4(q)
        /\ 100 * q - exact <= 50
        /\ exact - 100 * q <= 50

\* C4 as claimed: when every call recorded since the last reset ran on one
\* provider p, getUsage().tokens is the sum of the recorded token counts and
\* getUsage().cost is (sum / 1000) * rate of p rendered with 4 decimals
\* (halfway amounts rounded up, as decimal rounding does).
C4_ExactCostRendering ==
    \A p \in Providers :
        onlyProvider = p =>
            \A u \in getUsage :
                /\ u.tokens = recordedTokens
                /\ u.cost = Decimal4((recordedTokens * PROVIDER_COSTS[p] + 50) \div 100)

\* C4 as amended: when every call recorded since the last reset ran on one
\* provider p, getUsage().tokens is the sum of the recorded token counts and
\* getUsage().cost is a 4-decimal rendering nearest to (sum / 1000) * rate of
\* p, where an amount exactly halfway between two 4-decimal values may come
\* out as either; two calls of 1000 tokens at $0.01/1K give tokens 2000 and
\* cost "0.0200".
C4_UsageTotals ==
    \A p \in Providers :
        onlyProvider = p =>
            \A u \in getUsage :
                /\ u.tokens = recordedTokens
                /\ NearestDecimal4(u.cost, recordedTokens * PROVIDER_COSTS[p])
                /\ (p = "gemini" /\ recordedTokens = 2000)
                      => u.cost = <<"0", ".", "0", "2", "0", "0">>

\* Two calls of 1000 tokens each have been recorded on gemini ($0.01/1K).
C4_Witness ==
    /\ onlyProvider = "gemini"
    /\ recordedTokens = 2000
    /\ \A c \in {1, 2} : calls[c].pc = "returned"
    /\ getUsage = {[provider |-> provider, tokens |-> 2000,
                    cost |-> <<"0", ".", "0", "2", "0", "0">>]}

\* C5: a setProvider that succeeds changes only the active provider: token
\* count, cost (recorded usage is not repriced) and credentials stay.
C5_SwitchKeepsUsage ==
    [][\A id \in Ids :
          (SetProvider(id) /\ result'.error = "")
             => /\ provider' = id
                /\ UNCHANGED <<tokenUsage, totalCost, apiKeys>>]_vars

\* The active provider was switched after usage had been recorded under
\* another provider.
C5_Witness ==
    /\ result = Outcome("setProvider", "")
    /\ tokenUsage > 0
    /\ onlyProvider \in Providers
    /\ onlyProvider # provider

\* C6: the cost a successful sendPrompt adds is its token count at the rate
\* of the provider the request was dispatched to, also when setProvider
\* switches the active provider while the call is in flight.
C6_RateOfDispatchedProvider ==
    [][\A c \in Calls, resp \in UsageResponses :
          HttpSuccess(c, resp)
             => totalCost' =
                  JSAdd(totalCost,
                        JSNum(tokensUsedOf(calls[c].target, calls[c].request, resp)
                                * PROVIDER_COSTS[calls[c].target]))]_vars

\* Calls have been in flight at the same time and every call made so far
\* has returned.
ConcurrentCallsReturned ==
    /\ concurrent
    /\ \A c \in Calls : calls[c].pc \in {"idle", "returned"}

\* C7 as claimed: two successful calls that were in flight together lose an
\* update, the cumulative token count ends below the sum of what the calls
\* recorded.
C7_LostUpdate ==
    (ConcurrentCallsReturned /\ recordedTokens > 0) => tokenUsage < recordedTokens

\* C7 as amended: no update is lost.  _trackUsage reads and writes the
\* accumulator in one synchronous step, so after two successful calls that
\* were in flight together the cumulative token count is the sum of what
\* the calls recorded, and the cost is that sum at the provider's rate when
\* both ran on one provider.
C7_NoLostUpdate ==
    ConcurrentCallsReturned =>
        /\ tokenUsage = recordedTokens
        /\ onlyProvider \in Providers =>
             totalCost = JSNum(recordedTokens * PROVIDER_COSTS[onlyProvider])

\* Two calls were in flight together, both returned and both are in the
\* accumulator.
C7_Witness ==
    /\ ConcurrentCallsReturned
    /\ onlyProvider \in Providers
    /\ recordedTokens >= 30
    /\ tokenUsage = recordedTokens

\* C8: resetUsage zeroes token count and cost from any state and leaves the
\* active provider and the credentials alone; until usage is recorded again
\* both stay zero.
C8_ResetZeroes ==
    /\ [](onlyProvider = "" => (tokenUsage = 0 /\ totalCost = JSNum(0)))
    /\ [][ResetUsage
             => /\ tokenUsage' = 0
                /\ totalCost' = JSNum(0)
                /\ UNCHANGED <<provider, apiKeys>>]_vars

\* A reset has run after a call had recorded usage.
C8_Witness ==
    /\ onlyProvider = ""
    /\ tokenUsage = 0
    /\ totalCost = JSNum(0)
    /\ \E c \in Calls : calls[c].pc = "returned"

\* C9: a sendPrompt issues at most one POST: a call that awaits or has
\* returned issued exactly one, and a failed POST ends the call in an error
\* without another POST.
C9_OnePostPerCall ==
    /\ [](\A c \in Calls :
            /\ calls[c].posts <= 1
            /\ calls[c].pc \in {"awaiting", "returned"} => calls[c].posts = 1
            /\ calls[c].pc = "idle" => calls[c].posts = 0)
    /\ [][\A c \in Calls, failure \in Failures :
             HttpFailure(c, failure)
                => /\ calls'[c].pc = "thrown"
                   /\ calls'[c].error = "ProviderCall"
                   /\ calls'[c].posts = calls[c].posts]_vars

\* A call has ended in an error after its one POST failed.
C9_Witness ==
    \E c \in Calls :
        /\ calls[c].pc = "thrown"
        /\ calls[c].error = "ProviderCall"
        /\ calls[c].posts = 1

\* C10: the accumulator changes only in the step in which a sendPrompt
\* returns (after its response arrived) and in resetUsage; a sendPrompt that
\* throws leaves it alone; apart from resets token count and cost never
\* decrease, and both are always non-negative numbers.
C10_AccumulatorDiscipline ==
    /\ [](tokenUsage >= 0 /\ ~totalCost.nan /\ totalCost.n >= 0)
    /\ [][(tokenUsage' # tokenUsage \/ totalCost' # totalCost)
             => \/ ResetUsage
                \/ \E c \in Calls :
                     calls[c].pc = "awaiting" /\ calls'[c].pc = "returned"]_vars
    /\ [][\A c \in Calls :
             (calls[c].pc # "thrown" /\ calls'[c].pc = "thrown")
                => UNCHANGED <<tokenUsage, totalCost>>]_vars
    /\ [][~ResetUsage
             => /\ tokenUsage' >= tokenUsage
                /\ ~totalCost'.nan
                /\ totalCost'.n >= totalCost.n]_vars

\* --------------------------------------------- one sendPrompt, any options
\* Prompts of the single call: one that fits every budget and one of 21
\* characters.
SendPrompts ==
    { <<"H", "i", ".", " ", "y", "o", "u", "?">>,
      <<"R", "e", "a", "d", " ", "t", "h", "i", "s", ",", " ",
        "t", "h", "e", "n", " ", "s", "t", "o", "p", ".">> }

\* options.model: left out, a model of openai's table, a model of no table.
ModelInputs == { NoModel, "gpt-4", "no-such-model" }

\* options.max_tokens: left out, 0, a usual value, and 3993, 3996 and 4000,
\* which leave 3, 0 and -4 tokens of a context limit of 4096.
MaxTokensInputs == { Absent, 0, 500, 3993, 3996, 4000 }

SendOptions ==
    [model : ModelInputs, max_tokens : MaxTokensInputs]

\* The gateway is configured, then one sendPrompt runs to its end.
SendNext ==
    \/ \E id \in Ids : calls[1].pc = "idle" /\ SetProvider(id)
    \/ \E prompt \in SendPrompts, options \in SendOptions :
           SendPrompt(1, prompt, options)
    \/ \E resp \in Responses : HttpSuccess(1, resp)
    \/ \E failure \in Failures : HttpFailure(1, failure)

SendSpec == Init /\ [][SendNext]_allVars

\* ------------------------------------------------ claims on _truncateText
\* The separators and weights as the claims give them, weights in tenths.
ClaimedSeparators ==
    { [char |-> <<"\n", "\n">>, weight |-> 10],    \* paragraph break 1.0
      [char |-> <<".", " ">>,   weight |-> 9],     \* sentence end 0.9
      [char |-> <<"\n">>,       weight |-> 8],     \* line break 0.8
      [char |-> <<",", " ">>,   weight |-> 6],     \* clause break 0.6
      [char |-> <<" ">>,        weight |-> 5] }    \* word break 0.5

\* floor(maxTokens * 3.5) for the budget the helper is applied with.
CharBudget == (7 * maxTokens.n) \div 2

\* Position of the last occurrence of separator b inside the first
\* CharBudget characters of text, -1 when there is none.
LastAt(b) == lastIndexOf(SubSeq(text, 1, Min({Len(text), Max({CharBudget, 0})})),
                         b.char)

\* The separators located at or after 0.7 * CharBudget, and those located
\* strictly after it.
AtOrPast ==
    { b \in ClaimedSeparators : LastAt(b) >= 0 /\ 10 * LastAt(b) >= 7 * CharBudget }
StrictlyPast ==
    { b \in ClaimedSeparators : LastAt(b) >= 0 /\ 10 * LastAt(b) > 7 * CharBudget }

\* The value returned when text is cut after its first c characters.
CutAt(c) ==
    [text |-> trim(SubSeq(text, 1, c)) \o TruncationNotice, wasTruncated |-> TRUE]

\* The values returned when the cut is placed right after a separator of Q
\* with the highest weight * (position / CharBudget), at CharBudget when Q is
\* empty.
CutsAmong(Q) ==
    IF Q = {} THEN { CutAt(CharBudget) }
    ELSE { CutAt(LastAt(b) + Len(b.char)) :
             b \in { q \in Q : \A o \in Q :
                        o.weight * LastAt(o) <= q.weight * LastAt(q) } }

EndsWithNotice(t) ==
    /\ Len(t) >= Len(TruncationNotice)
    /\ SubSeq(t, Len(t) - Len(TruncationNotice) + 1, Len(t)) = TruncationNotice

\* C11: for a budget of one token or more, truncating the text a
\* truncation returned, with the same budget, does not truncate again: the
\* cut text with its notice fits the budget.
C11_RefitFits ==
    (ret.op = "_truncateText twice" /\ ~maxTokens.nan /\ maxTokens.n > 0)
        => ret.value.wasTruncated = FALSE

\* C12: a text of at most 4 * maxTokens characters (its estimate is within
\* the budget) is returned as it is, with wasTruncated false.
C12_NoOpWhenFits ==
    [][(TruncateText /\ ~maxTokens.nan /\ Len(text) <= 4 * maxTokens.n)
          => ret'.value = [text |-> text, wasTruncated |-> FALSE]]_allVars

\* A text that is within the estimate but longer than floor(3.5 * maxTokens)
\* characters came back unchanged.
C12_Witness ==
    /\ ret.op = "_truncateText"
    /\ ~maxTokens.nan
    /\ Len(text) <= 4 * maxTokens.n
    /\ Len(text) > CharBudget
    /\ ret.value = [text |-> text, wasTruncated |-> FALSE]

\* The first of LongInputs: paragraph break at 28 of 70, sentence end at 63.
ParagraphThenSentence ==
    Filler(28) \o <<"\n", "\n">> \o Filler(33) \o <<".", " ">> \o Filler(16)

\* C13: when a text is truncated to a positive budget and separators lie in
\* the last part of the window, the cut is right after the one whose weight
\* * (position / CharBudget) is highest, position being the last occurrence
\* inside the first CharBudget characters (whether a separator at exactly 0.7
\* * CharBudget takes part is left open here); with a paragraph break at 40%
\* and a sentence end at 90% of the budget the cut is after the sentence end.
C13_HighestScoreWins ==
    [][(TruncateText /\ ret'.value.wasTruncated /\ ~maxTokens.nan
          /\ CharBudget > 0 /\ AtOrPast # {})
          => /\ ret'.value \in CutsAmong(StrictlyPast) \cup CutsAmong(AtOrPast)
             /\ (text = ParagraphThenSentence /\ maxTokens = JSNum(20))
                   => ret'.value = CutAt(65)]_allVars

\* A text with a line break at 10 and a word break at 13 of a window of 14
\* was cut after the line break (0.8 * 10/14 against 0.5 * 13/14).
C13_Witness ==
    /\ ret.op = "_truncateText"
    /\ maxTokens = JSNum(4)
    /\ LastAt([char |-> <<"\n">>, weight |-> 8]) = 10
    /\ LastAt([char |-> <<" ">>, weight |-> 5]) = 13
    /\ ret.value = CutAt(11)
    /\ ret.value # CutAt(14)

\* The sentence end at 90% of the budget was chosen over the paragraph break
\* at 40%.
C13_ExampleReached ==
    /\ ret.op = "_truncateText"
    /\ text = ParagraphThenSentence
    /\ ret.value = CutAt(65)

\* C14: a separator counts as a boundary exactly when it lies at or after 0.7
\* * CharBudget inside the window, one located exactly at 0.7 * CharBudget
\* included: a truncation to a positive budget cuts after the best of these
\* separators, and at CharBudget only when there is none.
C14_QualifiesAtOrAfter ==
    [][(TruncateText /\ ret'.value.wasTruncated /\ ~maxTokens.nan
          /\ CharBudget > 0)
          => ret'.value \in CutsAmong(AtOrPast)]_allVars

\* C15: a truncation to a budget of zero or more tokens with no separator at
\* or after 0.7 * CharBudget cuts exactly at CharBudget = floor(maxTokens *
\* 3.5) characters; whenever the returned text differs from the input,
\* wasTruncated is true, and whenever wasTruncated is true the returned text
\* ends with the notice.
C15_CutAtBudgetWithNotice ==
    /\ [][(TruncateText /\ ret'.value.wasTruncated /\ ~maxTokens.nan
             /\ CharBudget >= 0 /\ AtOrPast = {})
             => ret'.value = CutAt(CharBudget)]_allVars
    /\ [](ret.op = "_truncateText"
            => /\ ret.value.text # text => ret.value.wasTruncated
               /\ ret.value.wasTruncated => EndsWithNotice(ret.value.text))

\* A text without a separator near the end of the window was cut at exactly
\* CharBudget characters, none of them trimmed.
C15_Witness ==
    /\ ret.op = "_truncateText"
    /\ ~maxTokens.nan
    /\ CharBudget > 0
    /\ AtOrPast = {}
    /\ ret.value.wasTruncated
    /\ ret.value.text = SubSeq(text, 1, CharBudget) \o TruncationNotice

\* C16: _estimateTokens(text) is the least k with 4 * k >= length(text), 0
\* for the empty text; it can always be applied and changes no field of the
\* gateway.
C16_EstimateIsCeilQuarter ==
    /\ [](ret.op = "_estimateTokens"
            => /\ 4 * ret.value >= Len(text)
               /\ 4 * (ret.value - 1) < Len(text)
               /\ text = <<>> => ret.value = 0)
    /\ [][EstimateTokens => UNCHANGED vars]_allVars

\* The estimate of a text whose length is no multiple of 4 was rounded up.
C16_Witness ==
    /\ ret.op = "_estimateTokens"
    /\ Len(text) % 4 = 1
    /\ ret.value = (Len(text) \div 4) + 1

\* C17: _getContextLimits(provider, model) returns a positive integer: for
\* one of the four providers and a model its table does not list, the
\* default entry of its table; for any other provider the default entry of
\* openai's table, whatever the model.
C17_LimitAlwaysPositive ==
    ret.op = "_getContextLimits"
        => /\ ~ret.value.nan
           /\ ret.value.n > 0
           /\ (ret.provider \in Providers
                  /\ ret.model \notin DOMAIN limits[ret.provider])
                 => ret.value = JSNum(limits[ret.provider]["default"])
           /\ ret.provider \notin Providers
                 => ret.value = JSNum(limits["openai"]["default"])

\* -------------------------------------------- claims on one sendPrompt
\* The budget as C18 gives it: the context limit of the active provider and
\* of options.model (the provider's default model when none is given), less
\* options.max_tokens (1000 only when none is given), less 100.
C18_ClaimedBudget(options) ==
    JSSub(JSSub(getContextLimits(provider,
                                 IF options.model = NoModel
                                 THEN getDefaultModel(provider)
                                 ELSE options.model),
                JSNum(IF options.max_tokens = Absent
                      THEN 1000 ELSE options.max_tokens)),
          JSNum(100))

\* C18: the budget a sendPrompt fits its prompt to is contextLimit - R - 100
\* with R the caller's max_tokens whenever one is given, 0 included, and 1000
\* only when none is given.
C18_BudgetFormula ==
    [][\A prompt \in SendPrompts, options \in SendOptions :
          (SendPrompt(1, prompt, options) /\ calls'[1].pc = "awaiting")
             => calls'[1].maxPromptTokens = C18_ClaimedBudget(options)]_allVars

\* The metadata C19 expects on the value a call returns.
C19_Metadata(call) ==
    [wasTruncated |-> TRUE,
     originalTokens |-> (Len(call.prompt) + 3) \div 4,
     processedTokens |-> (Len(call.request) + 3) \div 4]

\* The request carries what _truncateText gives for the prompt and the
\* call's budget: the prompt itself, or a cut of it ending in the notice.
C19_RequestIsFit(call) ==
    /\ \E r \in truncateText(call.prompt, call.maxPromptTokens) :
          call.request = r.text
    /\ \/ call.request = call.prompt
       \/ EndsWithNotice(call.request)

C20_ReportedOrEstimated ==
    [][\A resp \in Responses :
          HttpSuccess(1, resp)
             => tokenUsage' - tokenUsage =
                  IF resp.usage # NoUsage THEN resp.usage
                  ELSE (Len(calls[1].request) + resp.completionLen + 3) \div 4]_allVars

\* ------------------------------------------- credentials and the provider
\* getAvailableProviders(): the own keys of this.apiKeys whose value is
\* truthy.  The four providers are own keys from construction; any other id
\* becomes one when setApiKey assigns it (an inherited function is no own
\* key).
getAvailableProviders ==
    { id \in Ids : Truthy(apiKeys[id]) /\ apiKeys[id] # InheritedFunction }

\* Credentials are set and cleared for any id and the provider is switched,
\* before, while and after one sendPrompt runs.
CredNext ==
    \/ \E id \in Ids : SetProvider(id)
    \/ \E id \in Ids, apiKey \in KeyInputs : SetApiKey(id, apiKey)
    \/ \E prompt \in Prompts, options \in OptionInputs :
           SendPrompt(1, prompt, options)
    \/ \E resp \in UsageResponses : HttpSuccess(1, resp)
    \/ \E failure \in Failures : HttpFailure(1, failure)

CredSpec == Init /\ [][CredNext]_allVars

\* C21: setApiKey(id, key) for one of the four providers stores key for id
\* whatever it is (with the empty string id is no longer listed by
\* getAvailableProviders and setProvider(id) then throws the
\* missing-credential error) and changes no other credential, nor the active
\* provider, nor the accumulator; for any other id it throws the
\* unsupported-provider error and changes nothing.
C21_SetCredentialEffect ==
    [][\A id \in Ids, apiKey \in KeyInputs :
          SetApiKey(id, apiKey)
             => IF id \in Providers
                THEN /\ result'.error = ""
                     /\ apiKeys'[id] = apiKey
                     /\ \A o \in Ids \ {id} : apiKeys'[o] = apiKeys[o]
                     /\ UNCHANGED <<provider, tokenUsage, totalCost>>
                     /\ apiKey = ""
                           => /\ id \notin getAvailableProviders'
                              /\ setProvider(id)'.error = "MissingCredential"
                ELSE /\ result'.error = "UnsupportedProvider"
                     /\ UNCHANGED <<apiKeys, provider, tokenUsage,
                                    totalCost>>]_allVars

\* C24: the active provider is always one of the four providers, so no
\* sendPrompt ends in the default case of the switch (an error without a
\* POST other than the missing-credential error) and _trackUsage always
\* finds a rate.
C24_ActiveProviderKnown ==
    /\ provider \in Providers
    /\ ~CostEntry(provider).nan
    /\ \A c \in Calls :
          calls[c].pc = "thrown" /\ calls[c].posts = 0
             => calls[c].error = "MissingCredential"

\* C25 as claimed: from the first state in which the active provider has a
\* stored key, it has one in every later state, whatever setProvider and
\* setApiKey do.
C25_ActiveKeyNeverLost ==
    [][Truthy(apiKeys[provider]) => Truthy(apiKeys'[provider'])]_allVars

\* C25 as amended: a setProvider that succeeds leaves an active provider
\* with a stored key; the active provider loses its key in no step but a
\* setApiKey(active provider, ""), which setApiKey accepts; and a sendPrompt
\* throws the missing-credential error exactly when the key stored for the
\* active provider is empty, also after credentials had been set.
C25_ActiveKeyUnlessCleared ==
    /\ [][\A id \in Ids :
             (SetProvider(id) /\ result'.error = "")
                => Truthy(apiKeys'[provider'])]_allVars
    /\ [][(Truthy(apiKeys[provider]) /\ ~Truthy(apiKeys'[provider']))
             => /\ provider' = provider
                /\ apiKeys' = [apiKeys EXCEPT ![provider] = ""]
                /\ result' = Outcome("setApiKey", "")]_allVars
    /\ [][\A prompt \in Prompts, options \in OptionInputs :
             SendPrompt(1, prompt, options)
                => (calls'[1].error = "MissingCredential"
                       <=> ~Truthy(apiKeys[provider]))]_allVars

\* gemini was selected (it had a key then), its key was cleared, and the
\* sendPrompt that followed threw the missing-credential error.
C25_Witness ==
    /\ provider = "gemini"
    /\ apiKeys["gemini"] = ""
    /\ result = Outcome("setApiKey", "")
    /\ calls[1].pc = "thrown"
    /\ calls[1].error = "MissingCredential"

\* ------------------------------------------ the budget is not validated
\* The context limit a sendPrompt with these options resolves.
C22_Limit(options) ==
    getContextLimits(provider, IF options.model = NoModel
                               THEN getDefaultModel(provider)
                               ELSE options.model)

\* C22: a sendPrompt whose max_tokens is contextLimit - 100 or more is not
\* rejected: with a key stored for the active provider it fits the prompt to
\* the budget contextLimit - max_tokens - 100, which is zero or negative,
\* and issues its POST; the request of a non-empty prompt is truncated to
\* nothing or the first character of the prompt, followed by the notice.
C22_NonPositiveBudgetDispatched ==
    [][\A prompt \in SendPrompts, options \in SendOptions :
          (/\ SendPrompt(1, prompt, options)
           /\ Truthy(apiKeys[provider])
           /\ ~C22_Limit(options).nan
           /\ options.max_tokens # Absent
           /\ options.max_tokens >= C22_Limit(options).n - 100)
             => /\ calls'[1].pc = "awaiting"
                /\ calls'[1].posts = 1
                /\ calls'[1].error = ""
                /\ calls'[1].maxPromptTokens =
                      JSNum(C22_Limit(options).n - options.max_tokens - 100)
                /\ calls'[1].maxPromptTokens.n <= 0
                /\ prompt # <<>>
                      => /\ calls'[1].wasTruncated
                         /\ \E k \in 0..1 :
                               calls'[1].request =
                                  SubSeq(prompt, 1, k) \o TruncationNotice]_allVars

\* A call is awaiting its POST with a budget of -4 tokens; the request is the
\* first character of the prompt and the notice.
C22_Witness ==
    /\ calls[1].pc = "awaiting"
    /\ calls[1].posts = 1
    /\ calls[1].maxPromptTokens = JSNum(0 - 4)
    /\ calls[1].request = <<calls[1].prompt[1]>> \o TruncationNotice

\* A call is awaiting its POST with a budget of 0 tokens; the request is the
\* notice alone.
C22_ZeroBudgetReached ==
    /\ calls[1].pc = "awaiting"
    /\ calls[1].maxPromptTokens = JSNum(0)
    /\ calls[1].prompt # <<>>
    /\ calls[1].request = TruncationNotice

\* ----------------------------------------------------------- completion
Awaiting(c) == calls[c].pc = "awaiting"
Completed(c) == calls[c].pc \in {"returned", "thrown"}

\* C23: a sendPrompt whose POST eventually settles eventually returns or
\* throws, also while the POST of the first call hangs; and while any call
\* awaits its POST, its own continuation can run as soon as the POST settles
\* (whatever the other calls do), a further sendPrompt can be started,
\* setProvider and resetUsage run, and getUsage gives a snapshot.
C23_CompletesUnlessHung ==
    /\ \A c \in Calls \ {1} : Awaiting(c) ~> Completed(c)
    /\ WF_allVars(Settle(1)) => (Awaiting(1) ~> Completed(1))
    /\ [](\A c \in Calls :
            Awaiting(c)
               => /\ ENABLED (\E resp \in UsageResponses : HttpSuccess(c, resp))
                  /\ ENABLED (\E failure \in Failures : HttpFailure(c, failure))
                  /\ ENABLED ResetUsage
                  /\ \A id \in SwitchIds : ENABLED SetProvider(id)
                  /\ getUsage # {}
                  /\ (\E b \in Calls : calls[b].pc = "idle")
                        => ENABLED (\E b \in Calls, prompt \in Prompts,
                                       options \in OptionInputs :
                                          SendPrompt(b, prompt, options)))

\* The second call has returned while the POST of the first, dispatched
\* before it, has not settled.
C23_Witness ==
    /\ Awaiting(1)
    /\ calls[2].pc = "returned"

\* ------------------------------------------- resetUsage and calls in flight
\* C26 as claimed: a sendPrompt that was dispatched before a resetUsage and
\* returns after it adds neither its tokens nor its cost to the accumulator;
\* after a reset the accumulator changes only when a call dispatched after
\* the reset returns.
C26_StaleCallNotCounted ==
    [][\A c \in Calls, resp \in UsageResponses :
          (HttpSuccess(c, resp) /\ calls[c].beforeReset)
             => UNCHANGED <<tokenUsage, totalCost>>]_allVars

\* C26 as amended: after a resetUsage the accumulator stays at zero until a
\* sendPrompt returns, and every sendPrompt that returns adds its tokens and
\* their cost at the rate of the provider then active, whether it was
\* dispatched before the reset or after it.
C26_EveryReturnCounted ==
    /\ [][\A c \in Calls, resp \in UsageResponses :
             HttpSuccess(c, resp)
                => LET tokens ==
                         tokensUsedOf(calls[c].target, calls[c].request, resp)
                   IN  /\ tokenUsage' = tokenUsage + tokens
                       /\ totalCost' =
                             JSAdd(totalCost,
                                   JSMul(JSNum(tokens), CostEntry(provider)))]_allVars
    /\ [][(tokenUsage = 0 /\ totalCost = JSNum(0)
             /\ (tokenUsage' # 0 \/ totalCost' # JSNum(0)))
             => \E c \in Calls :
                   calls[c].pc = "awaiting" /\ calls'[c].pc = "returned"]_allVars

\* The accumulator holds the 15 tokens of a call that was dispatched before
\* a resetUsage and returned after it.
C26_Witness ==
    \E c \in Calls :
        /\ calls[c].pc = "returned"
        /\ calls[c].beforeReset
        /\ \A b \in Calls \ {c} : calls[b].pc = "idle"
        /\ tokenUsage = 15
        /\ recordedTokens = 15

\* ------------------------------------------------- where the cut can fall
\* C27: a truncation to a budget of one token or more keeps the first c
\* characters of the text, trimmed, before the notice, for a cut point c
\* with 0.7 * CharBudget < c <= CharBudget; nothing of the text beyond its
\* first CharBudget characters is in what is returned.
C27_CutWithinWindow ==
    [][(TruncateText /\ ret'.value.wasTruncated /\ ~maxTokens.nan
          /\ maxTokens.n > 0)
          => \E c \in 0..CharBudget :
                /\ 10 * c > 7 * CharBudget
                /\ ret'.value = CutAt(c)]_allVars

\* A text with white space in the first 0.7 * CharBudget characters was cut
\* after a separator further on, before CharBudget.
C27_Witness ==
    /\ ret.op = "_truncateText"
    /\ ~maxTokens.nan
    /\ maxTokens.n > 0
    /\ ret.value.wasTruncated
    /\ \E i \in 1..Len(text) : text[i] \in Whitespace /\ 10 * i <= 7 * CharBudget
    /\ \E c \in 0..(CharBudget - 1) :
          /\ 10 * c > 7 * CharBudget
          /\ ret.value = CutAt(c)
          /\ ret.value # CutAt(CharBudget)

\* C30: for every text and every integer maxTokens, a text whose estimate
\* ceil(length / 4) exceeds maxTokens is longer than floor(maxTokens * 3.5)
\* characters, so the second early return of _truncateText is never taken:
\* the text is truncated and what is returned ends with the notice.
C30_SecondReturnUnreachable ==
    [][(TruncateText /\ ~maxTokens.nan
          /\ (Len(text) + 3) \div 4 > maxTokens.n)
          => /\ Len(text) > CharBudget
             /\ ret'.value.wasTruncated
             /\ EndsWithNotice(ret'.value.text)]_allVars

\* A text one character longer than 4 * maxTokens, the shortest whose
\* estimate exceeds the budget, was truncated.
C30_Witness ==
    /\ ret.op = "_truncateText"
    /\ ~maxTokens.nan
    /\ maxTokens.n > 0
    /\ Len(text) = 4 * maxTokens.n + 1
    /\ ret.value.wasTruncated
    /\ EndsWithNotice(ret.value.text)

\* ------------------------------------------------- ResponseEvaluator
\* The keys of PROVIDERS, one Switch button each.
UiProviderKeys == {"openai", "gemini"}

\* The component mounts (its tab is opened): useState takes
\* llmService.service?.provider || "openai" as currentProvider.
Mount ==
    /\ currentProvider' = IF provider # "" THEN provider ELSE "openai"
    /\ UNCHANGED <<text, maxTokens, ret, stored>>
    /\ UNCHANGED vars

\* handleSwitchProvider(providerKey), run by the Switch button of
\* providerKey, which is disabled while providerKey is the displayed
\* provider: the state update is queued first, then setProvider runs; when
\* it throws the handler ends there and the queued update is still applied.
HandleSwitchProvider(providerKey) ==
    /\ currentProvider # providerKey
    /\ currentProvider' = providerKey
    /\ provider' = setProvider(providerKey).provider
    /\ result' = Outcome("setProvider", setProvider(providerKey).error)
    /\ UNCHANGED <<apiKeys, tokenUsage, totalCost, calls, recordedTokens,
                   onlyProvider, concurrent>>
    /\ UNCHANGED <<text, maxTokens, ret, stored>>

\* The component is used while the gateway's credentials are set and a
\* prompt is tested.
UiNext ==
    \/ Mount
    \/ \E providerKey \in UiProviderKeys : HandleSwitchProvider(providerKey)
    \/ \E id \in CredentialIds, apiKey \in KeyInputs : SetApiKey(id, apiKey)
    \/ \E prompt \in Prompts, options \in OptionInputs :
           SendPrompt(1, prompt, options)
    \/ \E resp \in UsageResponses : HttpSuccess(1, resp)
    \/ \E failure \in Failures : HttpFailure(1, failure)

UiSpec == Init /\ [][UiNext]_allVars

\* C28: after every handleSwitchProvider(providerKey) the provider the
\* component displays is the gateway's active provider, also when
\* setProvider threw.
C28_DisplayedIsActive ==
    [][\A providerKey \in UiProviderKeys :
          HandleSwitchProvider(providerKey)
             => currentProvider' = provider']_allVars

\* ------------------------------------------------------- PromptLogger
MaxLog == 3              \* entries logged in one behaviour

\* What JSON.parse can give besides an array: null, and an object that is
\* no array ({}).
JsonNull == [type |-> "null"]
JsonObject == [type |-> "object"]
JsonArray(items) == [type |-> "array", items |-> items]

\* The entries ResponseEvaluator logs: a successful call with its usage and
\* a failed one, with the provider that was active.
LogEntries ==
    { [component |-> "ResponseEvaluator", provider |-> "openai",
       status |-> "success", tokens |-> JSNum(15), cost |-> JSNum(450)],
      [component |-> "ResponseEvaluator", provider |-> "openai",
       status |-> "error", tokens |-> JSNum(0), cost |-> JSNum(0)],
      [component |-> "ResponseEvaluator", provider |-> "gemini",
       status |-> "error", tokens |-> JSNum(0), cost |-> JSNum(0)] }

\* JSON.stringify of a number: NaN is written as null.
stringifyNumber(x) == IF x.nan THEN JsonNull ELSE x

\* JSON.stringify(history) for an array of entries: the item that is stored,
\* given by the value JSON.parse reads back from it.
stringify(history) ==
    [kind |-> "json",
     value |-> JsonArray([i \in DOMAIN history.items |->
                 [history.items[i] EXCEPT !.tokens = stringifyNumber(@),
                                          !.cost = stringifyNumber(@)]])]

\* What the item can hold when the logger starts: nothing, the empty string,
\* a string that is no JSON, and JSON of null, of an object, of the empty
\* array.
StoredInputs ==
    { NoItem, [kind |-> "empty"], [kind |-> "garbage"],
      [kind |-> "json", value |-> JsonNull],
      [kind |-> "json", value |-> JsonObject],
      [kind |-> "json", value |-> JsonArray(<<>>)] }

\* getHistory(): [] when the item is null or empty (!raw) and when
\* JSON.parse throws; what JSON.parse returns otherwise, array or not.
getHistory ==
    IF stored.kind \in {"null", "empty", "garbage"} THEN JsonArray(<<>>)
    ELSE stored.value

\* logPrompt(entry): history.unshift(entry) throws a TypeError when history
\* is null or has no unshift, before anything is stored.
logPrompt(entry) ==
    LET history == getHistory
    IN  IF history.type # "array"
        THEN [threw |-> TRUE, stored |-> stored]
        ELSE [threw |-> FALSE,
              stored |-> stringify(JsonArray(<<entry>> \o history.items))]

GetHistory ==
    /\ ret' = [op |-> "getHistory", value |-> getHistory]
    /\ UNCHANGED <<text, maxTokens, currentProvider, stored>>
    /\ UNCHANGED vars

LogPrompt(entry) ==
    /\ getHistory.type = "array" => Len(getHistory.items) < MaxLog
    /\ stored' = logPrompt(entry).stored
    /\ ret' = [op |-> "logPrompt", entry |-> entry,
               threw |-> logPrompt(entry).threw]
    /\ UNCHANGED <<text, maxTokens, currentProvider>>
    /\ UNCHANGED vars

LogInit ==
    /\ Constructed
    /\ text = <<>>
    /\ maxTokens = JSNum(0)
    /\ ret = NoReturn
    /\ currentProvider = "openai"
    /\ stored \in StoredInputs

LogNext ==
    \/ GetHistory
    \/ \E entry \in LogEntries : LogPrompt(entry)

LogSpec == LogInit /\ [][LogNext]_allVars

\* The entries of a history, none when it is no array.
EntriesOf(history) ==
    IF history.type = "array" THEN history.items ELSE <<>>

\* C29: after logPrompt(entry), getHistory() is entry followed by the
\* entries getHistory() gave before, one more than before; when the item is
\* missing or is no JSON, getHistory() is the empty list and logPrompt
\* stores the new entry alone.
C29_NewestFirst ==
    /\ [][\A entry \in LogEntries :
             LogPrompt(entry)
                => /\ getHistory' = JsonArray(<<entry>> \o EntriesOf(getHistory))
                   /\ Len(EntriesOf(getHistory')) = Len(EntriesOf(getHistory)) + 1
                   /\ stored.kind \in {"null", "empty", "garbage"}
                         => getHistory' = JsonArray(<<entry>>)]_allVars
    /\ [](stored.kind \in {"null", "empty", "garbage"}
             => getHistory = JsonArray(<<>>))

=============================================================================
